---------------------------- MODULE Spec2Model ----------------------------
(***************************************************************************)
(* Media ingestion and publishing pipeline: the video upload handler, the  *)
(* two thumbnail upload handlers, the asset key helpers and the aspect     *)
(* ratio classifier, modelled from the Go sources.                         *)
(***************************************************************************)
EXTENDS Integers, Sequences, FiniteSets, TLC

(***************************************************************************)
(* IEEE-754 binary64 arithmetic, as far as checkAspectRatioType uses it.   *)
(* A positive float64 is [m |-> <<b1, ..., b53>>, e |-> k] with b1 = 1,    *)
(* standing for 1.b2...b53 * 2^k; zero is the record with the empty        *)
(* mantissa.  Every operation rounds to nearest, ties to even.             *)
(***************************************************************************)
MantBits == 53

F64Zero == [m |-> <<>>, e |-> 0]

RECURSIVE Pow2(_)
Pow2(k) == IF k = 0 THEN 1 ELSE 2 * Pow2(k - 1)

Zeros(n) == [i \in 1..n |-> 0]

\* the 8 binary digits of q (0 <= q < 256), most significant first
ChunkDigits(q) == [i \in 1..8 |-> (q \div Pow2(8 - i)) % 2]

\* the next 8 * n quotient bits of r/d (r < d < 2^23), and the remainder left
\* after them: schoolbook long division, 8 binary digits a step
RECURSIVE LongDiv(_, _, _)
LongDiv(r, d, n) ==
    IF n = 0 THEN [bits |-> <<>>, rem |-> r]
    ELSE LET r2   == r * 256
             rest == LongDiv(r2 % d, d, n - 1)
         IN  [bits |-> ChunkDigits(r2 \div d) \o rest.bits, rem |-> rest.rem]

\* bits + 1, with the carry out of the top bit: a bit flips when every bit
\* below it is 1
IncBits(b) ==
    LET n         == Len(b)
        ones(i)   == \A j \in (i + 1)..n : b[j] = 1
    IN  [bits  |-> [i \in 1..n |-> IF ones(i) THEN 1 - b[i] ELSE b[i]],
         carry |-> IF \A j \in 1..n : b[j] = 1 THEN 1 ELSE 0]

\* the float64 nearest to 1.b2b3... * 2^e, where bits = <<1, b2, b3, ...>> and
\* sticky tells that non-zero digits follow the ones given
RoundF64(bits, sticky, e) ==
    IF Len(bits) <= MantBits
    THEN [m |-> bits \o Zeros(MantBits - Len(bits)), e |-> e]
    ELSE LET kept  == SubSeq(bits, 1, MantBits)
             guard == bits[MantBits + 1]
             tail  == sticky \/ \E i \in (MantBits + 2)..Len(bits) : bits[i] = 1
             up    == guard = 1 /\ (tail \/ kept[MantBits] = 1)
             inc   == IncBits(kept)
         IN  IF ~up THEN [m |-> kept, e |-> e]
             ELSE IF inc.carry = 1
                  THEN [m |-> <<1>> \o Zeros(MantBits - 1), e |-> e + 1]
                  ELSE [m |-> inc.bits, e |-> e]

\* the largest k with d * 2^k <= n  (n >= d > 0)
RECURSIVE ShiftDen(_, _)
ShiftDen(n, d) == IF 2 * d <= n THEN 1 + ShiftDen(n, 2 * d) ELSE 0

\* the least k with n * 2^k >= d  (0 < n)
RECURSIVE ShiftNum(_, _)
ShiftNum(n, d) == IF n >= d THEN 0 ELSE 1 + ShiftNum(2 * n, d)

\* float64(w) / float64(h) for positive integers: both conversions are exact
\* (the integers are far below 2^53), the quotient is rounded once
F64Div(w, h) ==
    LET up  == IF w >= h THEN ShiftDen(w, h) ELSE 0
        dn  == IF w >= h THEN 0 ELSE ShiftNum(w, h)
        num == w * Pow2(dn)
        den == h * Pow2(up)
        q   == LongDiv(num - den, den, 7)
    IN  RoundF64(<<1>> \o q.bits, q.rem # 0, up - dn)

\* a < b for equal-length bit strings read as binary numbers
LessBits(a, b) ==
    \E i \in 1..Len(a) : a[i] < b[i] /\ \A j \in 1..(i - 1) : a[j] = b[j]

\* a - b on equal-length bit strings, a >= b: position i borrows when the
\* digits below it of a are less than those of b
SubBits(a, b) ==
    LET n         == Len(a)
        borrow(i) == IF LessBits(SubSeq(a, i + 1, n), SubSeq(b, i + 1, n))
                     THEN 1 ELSE 0
    IN  [i \in 1..n |-> (a[i] - b[i] - borrow(i) + 2) % 2]

StripZeros(b) ==
    IF \A i \in 1..Len(b) : b[i] = 0 THEN <<>>
    ELSE LET k == CHOOSE i \in 1..Len(b) :
                      b[i] = 1 /\ \A j \in 1..(i - 1) : b[j] = 0
         IN  SubSeq(b, k, Len(b))

\* math.Abs(x - y) for positive float64 x, y: the exact difference, rounded
F64AbsDiff(x, y) ==
    LET lo   == IF x.e < y.e THEN x.e ELSE y.e
        xa   == x.m \o Zeros(x.e - lo)
        ya   == y.m \o Zeros(y.e - lo)
        L    == IF Len(xa) > Len(ya) THEN Len(xa) ELSE Len(ya)
        xp   == Zeros(L - Len(xa)) \o xa
        yp   == Zeros(L - Len(ya)) \o ya
        diff == IF LessBits(xp, yp) THEN SubBits(yp, xp) ELSE SubBits(xp, yp)
        sig  == StripZeros(diff)
    IN  IF Len(sig) = 0 THEN F64Zero
        ELSE RoundF64(sig, FALSE, lo - (MantBits - 1) + Len(sig) - 1)

\* x <= y for float64 x, y >= 0
F64Leq(x, y) ==
    IF Len(x.m) = 0 THEN TRUE
    ELSE IF Len(y.m) = 0 THEN FALSE
    ELSE IF x.e # y.e THEN x.e < y.e
    ELSE ~LessBits(y.m, x.m)

\* tolerance := 0.01, the float64 nearest to 1/100
Tolerance == F64Div(1, 100)

checkAspectRatioType(width, height, tolerance) ==
    LET sixteenNineRatio == F64Div(16, 9)
        nineSixteenRatio == F64Div(9, 16)
        ratio            == F64Div(width, height)
    IN  IF F64Leq(F64AbsDiff(ratio, sixteenNineRatio), tolerance) THEN "16:9"
        ELSE IF F64Leq(F64AbsDiff(ratio, nineSixteenRatio), tolerance) THEN "9:16"
        ELSE "other"

(***************************************************************************)
(* Strings the handlers take apart or put together are sequences of        *)
(* tokens; "/", "," and ";" are tokens of their own, so that strings.Split *)
(* and mime.ParseMediaType work on them as they do on the characters.  A   *)
(* nil *string is the empty sequence.                                      *)
(***************************************************************************)
Nil == <<>>

RECURSIVE Split(_, _)
Split(str, sep) ==
    IF \A i \in 1..Len(str) : str[i] # sep THEN <<str>>
    ELSE LET k == CHOOSE i \in 1..Len(str) :
                      str[i] = sep /\ \A j \in 1..(i - 1) : str[j] # sep
         IN  <<SubSeq(str, 1, k - 1)>> \o Split(SubSeq(str, k + 1, Len(str)), sep)

ToLower(tok) ==
    CASE tok = "IMAGE" -> "image"
      [] tok = "JPEG"  -> "jpeg"
      [] OTHER         -> tok

\* mime.ParseMediaType: the part before the first ";", lower-cased, which
\* must read token or token/token; err is TRUE otherwise
ParseMediaType(v) ==
    LET base      == Split(v, ";")[1]
        mediatype == [i \in 1..Len(base) |-> ToLower(base[i])]
        wellFormed ==
            \/ Len(mediatype) = 1 /\ mediatype[1] # "/"
            \/ /\ Len(mediatype) = 3
               /\ mediatype[1] # "/" /\ mediatype[2] = "/" /\ mediatype[3] # "/"
    IN  [mediaType |-> mediatype, err |-> ~wellFormed]

\* the subtype taken from any content type of two parts or more
mediaTypeToExtensionLoose(mediaType) ==
    LET parts == Split(mediaType, "/")
    IN  IF Len(parts) < 2 THEN <<".bin">> ELSE <<".">> \o parts[2]

\* mediaTypeToExtension: a dot and the subtype of a content type of two parts
mediaTypeToExtension(mediaType) ==
    LET parts == Split(mediaType, "/")
    IN  IF Len(parts) # 2 THEN <<".bin">> ELSE <<".">> \o parts[2]

\* 32 random bytes in URL-safe base64: one token, different for every draw
RandomName(n) == "rnd" \o ToString(n)

getAssetPath(n, mediaType) == <<RandomName(n)>> \o mediaTypeToExtension(mediaType)

getAssetDiskPath(filename) == <<"assets", "/">> \o filename

getAssetURL(filename) == <<"http://localhost:8091/assets/">> \o filename

\* cfg.s3Bucket
s3Bucket == <<"tubely-bucket">>

\* the reference with another delimiter than the one it is split on
EncodeRefSlash(bucket, key) == bucket \o <<"/">> \o key

\* fmt.Sprintf("%s,%s", cfg.s3Bucket, key): the reference kept in the record
EncodeRef(bucket, key) == bucket \o <<",">> \o key

\* strings.Split(*video.VideoURL, ","): a reference is a bucket and a key
\* when it splits in exactly two
DecodeRef(ref) ==
    LET parts == Split(ref, ",")
    IN  IF Len(parts) # 2 THEN [ok |-> FALSE, bucket |-> Nil, key |-> Nil]
        ELSE [ok |-> TRUE, bucket |-> parts[1], key |-> parts[2]]

(***************************************************************************)
(* The requests, the record store, the object store and the local disk.    *)
(***************************************************************************)
Procs == {"p1", "p2"}

\* what tells the random strings of one request from those of the other
Serial(p) == IF p = "p1" THEN 1 ELSE 2

\* the most streams an ffprobe answer lists
MaxStreams == 1

Users == {"alice", "bob"}

\* the one record of the store belongs to alice; "vid0" names no record
RequestIDs == {"vid1", "vid0"}

Headers ==
    { <<"video", "/", "mp4">>, <<"image", "/", "png">>, <<"IMAGE", "/", "JPEG", ";", "q=1">>,
      <<"text", "/", "plain">>, <<>> }

\* width and height of the first stream ffprobe reports
Geometries == { <<1920, 1080>>, <<1080, 1920>>, <<640, 480>>, <<1609, 900>> }

\* the header field of a request whose Content-Type has not been read yet
Unread == <<"(unread)">>

NoVideo == [UserID |-> "", ThumbnailURL |-> Nil, VideoURL |-> Nil]

VARIABLES
    db,        \* the record store: video id -> database.Video
    s3,        \* the objects of the bucket, each complete
    disk,      \* the local files: path -> content
    run,       \* each request: its position and its locals
    cw, ch, cres,  \* a call of the classifier on its own: arguments, result
    fin, fout      \* a call of a string function on its own: argument, result

vars == <<db, s3, disk, run, cw, ch, cres, fin, fout>>

cvars == <<cw, ch, cres, fin, fout>>

pvars == <<db, s3, disk, run>>

IdleRun ==
    [ pc |-> "idle", kind |-> "", serial |-> 0, userID |-> "", videoID |-> "",
      header |-> Unread, mediaType |-> Nil, videoDb |-> NoVideo,
      tempFile |-> Nil, processedVideoPath |-> Nil, processedVideoFile |-> Nil,
      width |-> 0, height |-> 0, aspectRatio |-> "", key |-> Nil,
      status |-> 0, ended |-> "no", resp |-> NoVideo,
      stages |-> <<>>, failedAt |-> "", put |-> Nil, wrote |-> Nil, env |-> {} ]

PipelineInit ==
    /\ db = [v \in {"vid1"} |-> [UserID |-> "alice", ThumbnailURL |-> Nil, VideoURL |-> Nil]]
    /\ s3 = {}
    /\ disk = {}
    /\ run = [p \in Procs |-> IdleRun]

\* the local disk is a set of [path, data], one entry a path
Exists(d, path) == \E f \in d : f.path = path

Data(d, path) == (CHOOSE f \in d : f.path = path).data

WriteFile(d, path, data) == {f \in d : f.path # path} \cup {[path |-> path, data |-> data]}

Remove(d, path) == {f \in d : f.path # path}

\* respondWithError / respondWithJSON followed by return
Respond(r, code) == [r EXCEPT !.pc = "done", !.status = code, !.ended = "response"]

Fail(r, code, at) == [Respond(r, code) EXCEPT !.failedAt = at]

\* a run-time panic unwinds the handler; net/http recovers it and drops the
\* connection without a response
Panic(r, at) == [r EXCEPT !.pc = "done", !.ended = "panic", !.failedAt = at]

Stage(r, name) == [r EXCEPT !.stages = Append(@, name)]

\* what the tools and the stores did to request p is kept with it
Saw(p, what) == [run[p] EXCEPT !.env = @ \cup {what}]

\* the removal written after the last step instead of deferred: a panic skips it
DeferredSkippedByPanic(r, d) ==
    IF r.tempFile # Nil /\ r.ended # "panic" THEN {f \in d : f.path # r.tempFile} ELSE d

\* the deferred calls of the video handler, run when it returns or panics:
\* os.Remove(tempFile.Name()) once the temporary file was created
Deferred(r, d) == IF r.tempFile # Nil THEN Remove(d, r.tempFile) ELSE d

\* one step of request p: its new locals, and the disk the step leaves, after
\* the deferred calls when the step ends the handler
Step(p, r, d) ==
    /\ run' = [run EXCEPT ![p] = r]
    /\ disk' = IF r.pc = "done" THEN Deferred(r, d) ELSE d

NewRun(p, kind) == [IdleRun EXCEPT !.kind = kind, !.serial = Serial(p)]

CanBegin(p) == run[p].pc = "idle"

At(p, kind, pc) == run[p].kind = kind /\ run[p].pc = pc

(***************************************************************************)
(* handlerUploadVideo                                                      *)
(***************************************************************************)
\* uuid.Parse, auth.GetBearerToken, auth.ValidateJWT
VideoAuthenticate(r, idOK, tokenOK, jwtOK, user, vid) ==
    IF ~idOK THEN Fail(r, 400, "id")
    ELSE IF ~tokenOK THEN Fail(r, 401, "token")
    ELSE IF ~jwtOK THEN Fail(r, 400, "jwt")
    ELSE [r EXCEPT !.userID = user, !.videoID = vid, !.pc = "getVideo"]

BeginVideo(p) ==
    /\ CanBegin(p)
    /\ \E idOK \in BOOLEAN, tokenOK \in BOOLEAN, jwtOK \in BOOLEAN,
          user \in Users, vid \in RequestIDs :
          Step(p, VideoAuthenticate(NewRun(p, "video"), idOK, tokenOK, jwtOK, user, vid), disk)
    /\ UNCHANGED <<db, s3, cvars>>

\* cfg.db.GetVideo, r.FormFile, mime.ParseMediaType and the media type check
VideoValidate(r, dbOK, formOK, header) ==
    IF ~dbOK THEN Fail(r, 500, "getVideo")
    ELSE IF r.videoID \notin DOMAIN db THEN Fail(r, 404, "notFound")
    ELSE LET r1     == [r EXCEPT !.videoDb = db[r.videoID]]
             r2     == [r1 EXCEPT !.header = header]
             parsed == ParseMediaType(header)
         IN  IF ~formOK THEN Fail(r1, 400, "form")
             ELSE IF parsed.err THEN Fail(r2, 400, "mediaParse")
             ELSE IF parsed.mediaType # <<"video", "/", "mp4">>
                  THEN Fail(r2, 400, "mediaType")
             ELSE Stage([r2 EXCEPT !.mediaType = parsed.mediaType,
                                   !.pc = "createTemp"], "Validated")

VideoGetVideo(p) ==
    /\ At(p, "video", "getVideo")
    /\ \E dbOK \in BOOLEAN, formOK \in BOOLEAN, header \in Headers :
          Step(p, VideoValidate(run[p], dbOK, formOK, header), disk)
    /\ UNCHANGED <<db, s3, cvars>>

\* os.CreateTemp("", "tubely-upload.mp4"): the pattern's name followed by a
\* string no other file carries
TempName(n) == <<"tmp", "/", "tubely-upload.mp4", ToString(n)>>

VideoCreateTemp(p) ==
    /\ At(p, "video", "createTemp")
    /\ \E ok \in BOOLEAN :
          IF ok
          THEN LET name == TempName(run[p].serial)
               IN  Step(p, [run[p] EXCEPT !.tempFile = name, !.pc = "copy"],
                        WriteFile(disk, name, "empty"))
          ELSE Step(p, Fail(run[p], 500, "createTemp"), disk)
    /\ UNCHANGED <<db, s3, cvars>>

\* io.Copy(tempFile, file)
VideoCopy(p) ==
    /\ At(p, "video", "copy")
    /\ \E ok \in BOOLEAN :
          IF ok
          THEN Step(p, [Saw(p, "copied") EXCEPT !.pc = "seek"],
                    WriteFile(disk, run[p].tempFile, "upload"))
          ELSE Step(p, Fail(Saw(p, "copyFailed"), 500, "copy"),
                    WriteFile(disk, run[p].tempFile, "partial"))
    /\ UNCHANGED <<db, s3, cvars>>

\* tempFile.Seek(0, io.SeekStart)
VideoSeek(p) ==
    /\ At(p, "video", "seek")
    /\ \E ok \in BOOLEAN :
          Step(p, IF ok THEN Stage([run[p] EXCEPT !.pc = "ffmpeg"], "Staged")
                        ELSE Fail(run[p], 500, "seek"), disk)
    /\ UNCHANGED <<db, s3, cvars>>

\* processVideoForFastStart: the output path, and whether ffmpeg failed
processVideoForFastStart(filepath, ok) ==
    IF ok THEN [path |-> filepath \o <<".processing">>, err |-> FALSE]
          ELSE [path |-> Nil, err |-> TRUE]

\* a failing remux answered by going on with the file as uploaded
FastStartResultFallback(r, res) ==
    IF res.err THEN [r EXCEPT !.processedVideoPath = r.tempFile, !.pc = "open"]
    ELSE Stage([r EXCEPT !.processedVideoPath = res.path, !.pc = "open"], "Processed")

\* the handler's use of the result: the path it goes on with
FastStartResult(r, res) ==
    IF res.err THEN Fail(r, 500, "remux")
    ELSE Stage([r EXCEPT !.processedVideoPath = res.path, !.pc = "open"], "Processed")

\* ffmpeg writes its output file; a failing ffmpeg leaves none or a partial one
VideoFastStart(p) ==
    /\ At(p, "video", "ffmpeg")
    /\ \E out \in {"faststart", "partial", "none"} :
          LET res == processVideoForFastStart(run[p].tempFile, out = "faststart")
              outputFilePath == run[p].tempFile \o <<".processing">>
          IN  Step(p, FastStartResult(Saw(p, IF res.err THEN "remuxFailed" ELSE "remuxed"), res),
                   IF out = "none" THEN disk ELSE WriteFile(disk, outputFilePath, out))
    /\ UNCHANGED <<db, s3, cvars>>

\* os.Open(processedVideoPath)
VideoOpen(p) ==
    /\ At(p, "video", "open")
    /\ \E ok \in BOOLEAN :
          Step(p, IF ok /\ Exists(disk, run[p].processedVideoPath)
                  THEN [run[p] EXCEPT !.processedVideoFile = run[p].processedVideoPath,
                                      !.pc = "ffprobe"]
                  ELSE Fail(run[p], 500, "open"), disk)
    /\ UNCHANGED <<db, s3, cvars>>

\* what ffprobe can answer: a non-zero exit, output that is no JSON, or JSON
\* with the streams it lists
StreamLists ==
    UNION { [1..n -> {[Width |-> g[1], Height |-> g[2]] : g \in Geometries}] :
            n \in 0..MaxStreams }

ProbeOutputs ==
    { [exit |-> 1, json |-> TRUE, streams |-> <<>>],
      [exit |-> 0, json |-> FALSE, streams |-> <<>>] }
    \cup { [exit |-> 0, json |-> TRUE, streams |-> ss] : ss \in StreamLists }

ProbeAnswer(out) ==
    IF out.exit # 0 THEN "probeExit"
    ELSE IF ~out.json THEN "probeGarbage"
    ELSE IF Len(out.streams) = 0 THEN "probeNoStreams"
    ELSE "probed"

\* getVideoAspectRatio: metadata.Streams[0] panics on an empty slice
getVideoAspectRatio(out) ==
    IF out.exit # 0 THEN [aspectRatio |-> "", err |-> "exit", panic |-> FALSE]
    ELSE IF ~out.json THEN [aspectRatio |-> "", err |-> "parse", panic |-> FALSE]
    ELSE IF Len(out.streams) = 0 THEN [aspectRatio |-> "", err |-> "", panic |-> TRUE]
    ELSE [aspectRatio |-> checkAspectRatioType(out.streams[1].Width,
                                               out.streams[1].Height, Tolerance),
          err |-> "", panic |-> FALSE]

\* the classifier's answer taken as the name of the orientation
OrientationUnnamed(aspectRatio) == aspectRatio

\* the handler's renaming of the classifier's answer
Orientation(aspectRatio) ==
    IF aspectRatio = "16:9" THEN "landscape"
    ELSE IF aspectRatio = "9:16" THEN "portrait"
    ELSE aspectRatio

\* a failing probe answered by the class "other"
AspectRatioResultDefaulted(r, out) ==
    LET res == getVideoAspectRatio(out)
    IN  IF res.panic THEN Panic(r, "probeStreams")
        ELSE IF res.err # "" THEN [r EXCEPT !.aspectRatio = "other", !.pc = "put"]
        ELSE Stage(Stage([r EXCEPT !.width = out.streams[1].Width,
                                   !.height = out.streams[1].Height,
                                   !.aspectRatio = Orientation(res.aspectRatio),
                                   !.pc = "put"], "Probed"), "Classified")

AspectRatioResult(r, out) ==
    LET res == getVideoAspectRatio(out)
    IN  IF res.panic THEN Panic(r, "probeStreams")
        ELSE IF res.err = "exit" THEN Fail(r, 500, "probeExit")
        ELSE IF res.err = "parse" THEN Fail(r, 500, "probeParse")
        ELSE Stage(Stage([r EXCEPT !.width = out.streams[1].Width,
                                   !.height = out.streams[1].Height,
                                   !.aspectRatio = Orientation(res.aspectRatio),
                                   !.pc = "put"], "Probed"), "Classified")

VideoAspectRatio(p) ==
    /\ At(p, "video", "ffprobe")
    /\ \E out \in ProbeOutputs :
          Step(p, AspectRatioResult(Saw(p, ProbeAnswer(out)), out), disk)
    /\ UNCHANGED <<db, s3, cvars>>

\* the error of PutObject not looked at
PutObjectResultUnchecked(r, randOK, putOK) ==
    LET key == <<r.aspectRatio, "/">> \o getAssetPath(r.serial, r.mediaType)
    IN  IF ~randOK THEN Panic(r, "rand")
        ELSE Stage([r EXCEPT !.key = key, !.put = IF putOK THEN key ELSE Nil,
                             !.pc = "update"], "Published")

\* the temporary file handed over as the body
PutBodyStaged(r) == r.tempFile

\* Body: processedVideoFile
PutBody(r) == r.processedVideoFile

\* the key, then cfg.s3Client.PutObject with the opened file as the body
PutObjectResult(r, randOK, putOK) ==
    LET key == <<r.aspectRatio, "/">> \o getAssetPath(r.serial, r.mediaType)
    IN  IF ~randOK THEN Panic(r, "rand")
        ELSE IF ~putOK THEN Fail([r EXCEPT !.key = key], 500, "put")
        ELSE Stage([r EXCEPT !.key = key, !.put = key, !.pc = "update"], "Published")

VideoPutObject(p) ==
    /\ At(p, "video", "put")
    /\ \E randOK \in BOOLEAN, putOK \in BOOLEAN :
          LET r == PutObjectResult(Saw(p, IF ~randOK THEN "randFailed"
                                           ELSE IF putOK THEN "putAcked" ELSE "putFailed"),
                                   randOK, putOK)
          IN  /\ Step(p, r, disk)
              /\ s3' = IF randOK /\ putOK
                       THEN s3 \cup {[Bucket |-> s3Bucket, Key |-> r.key,
                                      Body |-> Data(disk, PutBody(run[p])),
                                      ContentType |-> run[p].mediaType]}
                       ELSE s3
    /\ UNCHANGED <<db, cvars>>

\* cfg.db.UpdateVideo: the record of that id becomes the one handed over
UpdateVideo(d, id, video) == [d EXCEPT ![id] = video]

\* the error of UpdateVideo not looked at
VideoUpdateResultUnchecked(r, ok) ==
    LET videoURL == EncodeRef(s3Bucket, r.key)
        r1       == [r EXCEPT !.videoDb.VideoURL = videoURL]
    IN  Stage([r1 EXCEPT !.wrote = IF ok THEN videoURL ELSE Nil, !.pc = "presign"],
              "Committed")

\* the URL of the object kept in the record in place of the reference
VideoUpdateResultAsURL(r, ok) ==
    LET videoURL == <<"https://">> \o s3Bucket \o <<".s3/">> \o r.key
        r1       == [r EXCEPT !.videoDb.VideoURL = videoURL]
    IN  IF ~ok THEN Fail(r1, 500, "update")
        ELSE Stage([r1 EXCEPT !.wrote = videoURL, !.pc = "presign"], "Committed")

\* videoDb.VideoURL = "<bucket>,<key>", then cfg.db.UpdateVideo(videoDb)
VideoUpdateResult(r, ok) ==
    LET videoURL == EncodeRef(s3Bucket, r.key)
        r1       == [r EXCEPT !.videoDb.VideoURL = videoURL]
    IN  IF ~ok THEN Fail(r1, 500, "update")
        ELSE Stage([r1 EXCEPT !.wrote = videoURL, !.pc = "presign"], "Committed")

VideoUpdate(p) ==
    /\ At(p, "video", "update")
    /\ \E ok \in BOOLEAN :
          LET r == VideoUpdateResult(Saw(p, IF ok THEN "updated" ELSE "updateFailed"), ok)
          IN  /\ Step(p, r, disk)
              /\ db' = IF ok THEN UpdateVideo(db, r.videoID, r.videoDb) ELSE db
    /\ UNCHANGED <<s3, cvars>>

\* generatePresignedURL: a URL of the object, valid for expireTime
generatePresignedURL(bucket, key, expireTime, ok) ==
    IF ok THEN [url |-> <<"https://">> \o bucket \o <<".s3/">> \o key
                        \o <<"?X-Amz-Expires=", ToString(expireTime)>>,
                err |-> FALSE]
          ELSE [url |-> Nil, err |-> TRUE]

\* dbVideoToSignedVideo: a copy of the record with the reference replaced by
\* a URL signed for 5 minutes; a reference that does not split in two on ","
\* is handed back as it is
dbVideoToSignedVideo(video, ok) ==
    LET ref == DecodeRef(video.VideoURL)
    IN  IF ~ref.ok THEN [video |-> video, err |-> FALSE]
        ELSE LET signed == generatePresignedURL(ref.bucket, ref.key, 300, ok)
             IN  IF signed.err THEN [video |-> NoVideo, err |-> TRUE]
                 ELSE [video |-> [video EXCEPT !.VideoURL = signed.url], err |-> FALSE]

VideoRespond(p) ==
    /\ At(p, "video", "presign")
    /\ \E ok \in BOOLEAN :
          LET presignedVideo == dbVideoToSignedVideo(run[p].videoDb, ok)
          IN  Step(p, IF presignedVideo.err THEN Fail(run[p], 500, "presign")
                      ELSE [Respond(run[p], 200) EXCEPT !.resp = presignedVideo.video],
                   disk)
    /\ UNCHANGED <<db, s3, cvars>>

(***************************************************************************)
(* handlerUploadThumbnail.  The repository holds two versions of it: one   *)
(* parses and checks the declared content type, the other (kind            *)
(* "thumbnailRaw", handler_upload_thumbnail.go) takes the header as it is. *)
(* From cfg.db.GetVideo on the two read the same.                          *)
(***************************************************************************)
ThumbKinds == {"thumbnail", "thumbnailRaw"}

AtThumb(p, pc) == run[p].kind \in ThumbKinds /\ run[p].pc = pc

\* uuid.Parse, auth.GetBearerToken, auth.ValidateJWT
ThumbAuthenticate(r, idOK, tokenOK, jwtOK, user, vid) ==
    IF ~idOK THEN Fail(r, 400, "id")
    ELSE IF ~tokenOK THEN Fail(r, 401, "token")
    ELSE IF ~jwtOK THEN Fail(r, 401, "jwt")
    ELSE [r EXCEPT !.userID = user, !.videoID = vid, !.pc = "form"]

\* r.FormFile, mime.ParseMediaType and the media type check
ThumbValidate(r, formOK, header) ==
    LET r1     == [r EXCEPT !.header = header]
        parsed == ParseMediaType(header)
    IN  IF r.pc = "done" THEN r
        ELSE IF ~formOK THEN Fail(r, 400, "form")
        ELSE IF parsed.err THEN Fail(r1, 400, "mediaParse")
        ELSE IF /\ parsed.mediaType # <<"image", "/", "jpeg">>
                /\ parsed.mediaType # <<"image", "/", "png">>
             THEN Fail(r1, 400, "mediaType")
        ELSE Stage([r1 EXCEPT !.mediaType = parsed.mediaType, !.pc = "getVideo"],
                   "Validated")

\* r.FormFile and header.Header.Get("Content-Type"), with no check
RawThumbValidate(r, formOK, header) ==
    IF r.pc = "done" THEN r
    ELSE IF ~formOK THEN Fail(r, 400, "form")
    ELSE Stage([r EXCEPT !.header = header, !.mediaType = header, !.pc = "getVideo"],
               "Validated")

BeginThumbnail(p) ==
    /\ CanBegin(p)
    /\ \E idOK \in BOOLEAN, tokenOK \in BOOLEAN, jwtOK \in BOOLEAN,
          user \in Users, vid \in RequestIDs, formOK \in BOOLEAN, header \in Headers :
          Step(p, ThumbValidate(ThumbAuthenticate(NewRun(p, "thumbnail"),
                                                  idOK, tokenOK, jwtOK, user, vid),
                                formOK, header), disk)
    /\ UNCHANGED <<db, s3, cvars>>

BeginThumbnailRaw(p) ==
    /\ CanBegin(p)
    /\ \E idOK \in BOOLEAN, tokenOK \in BOOLEAN, jwtOK \in BOOLEAN,
          user \in Users, vid \in RequestIDs, formOK \in BOOLEAN, header \in Headers :
          Step(p, RawThumbValidate(ThumbAuthenticate(NewRun(p, "thumbnailRaw"),
                                                     idOK, tokenOK, jwtOK, user, vid),
                                   formOK, header), disk)
    /\ UNCHANGED <<db, s3, cvars>>

\* cfg.db.GetVideo and the ownership check
ThumbOwnerCheck(r, dbOK) ==
    IF ~dbOK THEN Fail(r, 500, "getVideo")
    ELSE IF r.videoID \notin DOMAIN db THEN Fail(r, 404, "notFound")
    ELSE LET r1 == [r EXCEPT !.videoDb = db[r.videoID]]
         IN  IF r1.videoDb.UserID # r.userID THEN Fail(r1, 401, "owner")
             ELSE [r1 EXCEPT !.pc = "create"]

ThumbGetVideo(p) ==
    /\ AtThumb(p, "getVideo")
    /\ \E dbOK \in BOOLEAN : Step(p, ThumbOwnerCheck(run[p], dbOK), disk)
    /\ UNCHANGED <<db, s3, cvars>>

\* getAssetPath, cfg.getAssetDiskPath, os.Create
ThumbCreateResult(r, randOK, ok) ==
    LET fileName == getAssetPath(r.serial, r.mediaType)
    IN  IF ~randOK THEN Panic(r, "rand")
        ELSE IF ~ok THEN Fail([r EXCEPT !.key = fileName], 500, "create")
        ELSE [r EXCEPT !.key = fileName, !.pc = "copy"]

ThumbCreate(p) ==
    /\ AtThumb(p, "create")
    /\ \E randOK \in BOOLEAN, ok \in BOOLEAN :
          LET r == ThumbCreateResult(run[p], randOK, ok)
          IN  Step(p, r, IF r.pc = "copy"
                         THEN WriteFile(disk, getAssetDiskPath(r.key), "empty")
                         ELSE disk)
    /\ UNCHANGED <<db, s3, cvars>>

\* the error of io.Copy not looked at
ThumbCopyResultUnchecked(r, ok) ==
    Stage(Stage([r EXCEPT !.put = r.key, !.pc = "update"], "Staged"), "Published")

\* io.Copy(filePath, file)
ThumbCopyResult(r, ok) ==
    IF ~ok THEN Fail(r, 500, "copy")
    ELSE Stage(Stage([r EXCEPT !.put = r.key, !.pc = "update"], "Staged"), "Published")

ThumbCopy(p) ==
    /\ AtThumb(p, "copy")
    /\ \E ok \in BOOLEAN :
          Step(p, ThumbCopyResult(Saw(p, IF ok THEN "copied" ELSE "copyFailed"), ok),
               WriteFile(disk, getAssetDiskPath(run[p].key),
                         IF ok THEN "upload" ELSE "partial"))
    /\ UNCHANGED <<db, s3, cvars>>

\* the thumbnail reference put in the field of the video reference
ThumbUpdateResultIntoVideoURL(r, ok) ==
    LET thumbnailURL == getAssetURL(r.key)
        r1           == [r EXCEPT !.videoDb.VideoURL = thumbnailURL]
    IN  IF ~ok THEN Fail(r1, 500, "update")
        ELSE [Respond(Stage([r1 EXCEPT !.wrote = thumbnailURL], "Committed"), 200)
                EXCEPT !.resp = r1.videoDb]

\* videoDb.ThumbnailURL = cfg.getAssetURL(fileName), cfg.db.UpdateVideo, respond
ThumbUpdateResult(r, ok) ==
    LET thumbnailURL == getAssetURL(r.key)
        r1           == [r EXCEPT !.videoDb.ThumbnailURL = thumbnailURL]
    IN  IF ~ok THEN Fail(r1, 500, "update")
        ELSE [Respond(Stage([r1 EXCEPT !.wrote = thumbnailURL], "Committed"), 200)
                EXCEPT !.resp = r1.videoDb]

ThumbUpdate(p) ==
    /\ AtThumb(p, "update")
    /\ \E ok \in BOOLEAN :
          LET r == ThumbUpdateResult(Saw(p, IF ok THEN "updated" ELSE "updateFailed"), ok)
          IN  /\ Step(p, r, disk)
              /\ db' = IF ok THEN UpdateVideo(db, r.videoID, r.videoDb) ELSE db
    /\ UNCHANGED <<s3, cvars>>

(***************************************************************************)
(* The server: requests are served on goroutines of their own, which share *)
(* the record store, the bucket and the disk.                              *)
(***************************************************************************)
Init ==
    /\ PipelineInit
    /\ cw = 0 /\ ch = 0 /\ cres = ""
    /\ fin = Nil /\ fout = Nil

Next ==
    \E p \in Procs :
        \/ BeginVideo(p)
        \/ VideoGetVideo(p)
        \/ VideoCreateTemp(p)
        \/ VideoCopy(p)
        \/ VideoSeek(p)
        \/ VideoFastStart(p)
        \/ VideoOpen(p)
        \/ VideoAspectRatio(p)
        \/ VideoPutObject(p)
        \/ VideoUpdate(p)
        \/ VideoRespond(p)
        \/ BeginThumbnail(p)
        \/ BeginThumbnailRaw(p)
        \/ ThumbGetVideo(p)
        \/ ThumbCreate(p)
        \/ ThumbCopy(p)
        \/ ThumbUpdate(p)

Spec == Init /\ [][Next]_vars

(***************************************************************************)
(* The classifier on its own: one call on a pair of positive integers.     *)
(***************************************************************************)
\* the widths and heights tried: 1..MaxDim and the dimensions of common and
\* of borderline frames
MaxDim == 16

Dims == (1..MaxDim) \cup {221, 229, 400, 480, 640, 720, 900, 1080, 1280, 1591, 1609, 1920}

ClassifyInit ==
    /\ PipelineInit
    /\ cw \in Dims /\ ch \in Dims /\ cres = ""
    /\ fin = Nil /\ fout = Nil

Classify ==
    /\ cres = ""
    /\ cres' = Orientation(checkAspectRatioType(cw, ch, Tolerance))
    /\ UNCHANGED <<cw, ch, fin, fout, pvars>>

SpecClassify == ClassifyInit /\ [][Classify]_vars

(***************************************************************************)
(* The reference on its own: one bucket and one key, encoded and decoded.  *)
(***************************************************************************)
\* the longest bucket or key tried, in tokens
MaxRefLen == 3

RefAlphabet == {"a", ",", "/"}

RefStrings == UNION {[1..k -> RefAlphabet] : k \in 0..MaxRefLen}

Orientations == {"landscape", "portrait", "other"}

\* the keys handlerUploadVideo makes
GeneratedKeys ==
    {<<o, "/">> \o getAssetPath(n, <<"video", "/", "mp4">>) :
        o \in Orientations, n \in {Serial(p) : p \in Procs}}

CodecInit ==
    /\ PipelineInit
    /\ cw = 0 /\ ch = 0 /\ cres = ""
    /\ fin \in (RefStrings \cup {s3Bucket}) \X (RefStrings \cup GeneratedKeys)
    /\ fout = Nil

Codec ==
    /\ fout = Nil
    /\ fout' = <<DecodeRef(EncodeRef(fin[1], fin[2]))>>
    /\ UNCHANGED <<cw, ch, cres, fin, pvars>>

SpecCodec == CodecInit /\ [][Codec]_vars

(***************************************************************************)
(* The key generator on its own: one content type, one key.                *)
(***************************************************************************)
\* the longest content type tried, in tokens
MaxTypeLen == 4

TypeAlphabet == {"image", "/", "png"}

TypeStrings == UNION {[1..k -> TypeAlphabet] : k \in 0..MaxTypeLen}

AssetPathInit ==
    /\ PipelineInit
    /\ cw = 0 /\ ch = 0 /\ cres = ""
    /\ fin \in TypeStrings
    /\ fout = Nil

AssetPath ==
    /\ fout = Nil
    /\ \E n \in {Serial(p) : p \in Procs} : fout' = <<getAssetPath(n, fin)>>
    /\ UNCHANGED <<cw, ch, cres, fin, pvars>>

SpecAssetPath == AssetPathInit /\ [][AssetPath]_vars

(***************************************************************************)
(* Properties                                                              *)
(***************************************************************************)
Done(p) == run[p].pc = "done"

VideoRun(p) == run[p].kind = "video"

ThumbRun(p) == run[p].kind \in ThumbKinds

\* the file name inside the assets directory of a path of the disk
AssetName(path) == SubSeq(path, 3, Len(path))

IsAsset(path) == Len(path) > 2 /\ getAssetDiskPath(AssetName(path)) = path

\* the object a video reference designates is in the bucket
VideoObjectExists(ref) ==
    \E o \in s3 : o.Bucket \o <<",">> \o o.Key = ref /\ o.Body # "partial"

\* the file a thumbnail reference designates is on the disk, whole
ThumbObjectExists(ref) ==
    \E f \in disk : IsAsset(f.path) /\ getAssetURL(AssetName(f.path)) = ref
                    /\ f.data = "upload"

\* C1: every reference the record store holds designates an object that exists
\* completely in storage, and a request that has written its reference has had
\* its object write acknowledged before.
RefAfterAck ==
    /\ \A v \in DOMAIN db :
          /\ db[v].VideoURL # Nil => VideoObjectExists(db[v].VideoURL)
          /\ db[v].ThumbnailURL # Nil => ThumbObjectExists(db[v].ThumbnailURL)
    /\ \A p \in Procs : run[p].wrote # Nil => run[p].put # Nil

RefAfterAckWitness ==
    \E v \in DOMAIN db : db[v].VideoURL # Nil /\ db[v].ThumbnailURL # Nil

\* C2: once a video upload has ended, by a response or by a panic, the
\* temporary file it created is gone from the disk.
StagedFileRemoved ==
    \A p \in Procs :
        VideoRun(p) /\ Done(p) /\ run[p].tempFile # Nil => ~Exists(disk, run[p].tempFile)

StagedFileRemovedWitness ==
    \E p, q \in Procs :
        /\ VideoRun(p) /\ Done(p) /\ run[p].tempFile # Nil /\ run[p].ended = "panic"
        /\ VideoRun(q) /\ Done(q) /\ run[q].tempFile # Nil /\ run[q].status = 200

IsPrefix(a, b) == Len(a) <= Len(b) /\ SubSeq(b, 1, Len(a)) = a

PublishedIsRemuxed ==
    /\ \A o \in s3 : o.Body = "faststart"
    /\ \A p \in Procs :
          VideoRun(p) /\ "remuxFailed" \in run[p].env =>
              /\ Done(p) /\ run[p].status = 500 /\ run[p].ended = "response"
              /\ run[p].put = Nil
              /\ \A o \in s3 : o.Key # run[p].key \/ run[p].key = Nil

PublishedIsRemuxedWitness ==
    /\ s3 # {}
    /\ \E p \in Procs : VideoRun(p) /\ "remuxFailed" \in run[p].env

\* the media types a handler is meant to take
AcceptedTypes(kind) ==
    IF kind = "video" THEN { <<"video", "/", "mp4">> }
    ELSE { <<"image", "/", "jpeg">>, <<"image", "/", "png">> }

Accepted(kind, header) ==
    ~ParseMediaType(header).err /\ ParseMediaType(header).mediaType \in AcceptedTypes(kind)

Mentions(str, tok) == \E i \in 1..Len(str) : str[i] = tok

\* no object of the bucket and no asset file carries the random name of p
NothingPublished(p) ==
    /\ \A o \in s3 : ~Mentions(o.Key, RandomName(Serial(p)))
    /\ \A f \in disk : IsAsset(f.path) => ~Mentions(f.path, RandomName(Serial(p)))

\* no reference of the record store carries the random name of p
NothingWritten(p) ==
    \A v \in DOMAIN db :
        /\ ~Mentions(db[v].VideoURL, RandomName(Serial(p)))
        /\ ~Mentions(db[v].ThumbnailURL, RandomName(Serial(p)))

\* what a request has left behind: a local file, an object, a written record
NoEffect(p) ==
    /\ run[p].tempFile = Nil
    /\ run[p].put = Nil /\ run[p].wrote = Nil
    /\ NothingPublished(p) /\ NothingWritten(p)

\* C5: an upload whose declared content type is not an accepted one creates no
\* local file, publishes no object and does not change the record, and unless
\* something else fails first it ends with status 400.
BadTypeRejected ==
    \A p \in Procs :
        run[p].header # Unread /\ ~Accepted(run[p].kind, run[p].header) =>
            /\ NoEffect(p)
            /\ Done(p) /\ run[p].failedAt \in {"", "mediaParse", "mediaType"}
                   => run[p].status = 400

\* C6: an upload by a user who does not own the record creates no local file,
\* publishes no object and does not change the record, and unless something
\* else fails first it ends with status 401.
NonOwner(p) == run[p].videoDb # NoVideo /\ run[p].videoDb.UserID # run[p].userID

NonOwnerRejected ==
    \A p \in Procs :
        NonOwner(p) =>
            /\ NoEffect(p)
            /\ Done(p) /\ run[p].failedAt \in {"", "owner"} => run[p].status = 401

\* C7: a video upload whose probe exited non-zero or printed what is no JSON
\* has published nothing and written nothing, its temporary file is removed
\* and its caller got status 500.
ProbeFailed(p) == VideoRun(p) /\ run[p].env \cap {"probeExit", "probeGarbage"} # {}

ProbeFailureClean ==
    \A p \in Procs :
        ProbeFailed(p) =>
            /\ Done(p) /\ run[p].ended = "response" /\ run[p].status = 500
            /\ run[p].put = Nil /\ run[p].key = Nil
            /\ run[p].wrote = Nil
            /\ NothingPublished(p) /\ NothingWritten(p)
            /\ ~Exists(disk, run[p].tempFile)

ProbeFailureCleanWitness ==
    \E p, q \in Procs :
        /\ "probeExit" \in run[p].env /\ Done(p)
        /\ "probeGarbage" \in run[q].env /\ Done(q)

\* C8: a video upload whose probe exited with 0 and listed no stream ends with
\* an error response of status 500, not with a panic.
NoStreamsReported ==
    \A p \in Procs :
        VideoRun(p) /\ "probeNoStreams" \in run[p].env =>
            Done(p) /\ run[p].ended = "response" /\ run[p].status = 500

\* C9: a video upload whose publish was acknowledged and whose record update
\* failed leaves its object in the bucket, the record without its reference,
\* and its caller with status 500.
CommitFailed(p) == VideoRun(p) /\ {"putAcked", "updateFailed"} \subseteq run[p].env

OrphanAccepted ==
    \A p \in Procs :
        CommitFailed(p) =>
            /\ Done(p) /\ run[p].ended = "response" /\ run[p].status = 500
            /\ \E o \in s3 : o.Bucket = s3Bucket /\ o.Key = run[p].key
            /\ run[p].wrote = Nil /\ NothingWritten(p)

OrphanAcceptedWitness ==
    \E p \in Procs : CommitFailed(p) /\ Done(p)

\* the classification over the rationals, tolerance 1/100
ExactClass(w, h) ==
    LET abs(x) == IF x < 0 THEN -x ELSE x
    IN  IF 100 * abs(9 * w - 16 * h) <= 9 * h THEN "landscape"
        ELSE IF 100 * abs(16 * w - 9 * h) <= 16 * h THEN "portrait"
        ELSE "other"

\* C10: for positive integers width and height the classifier answers
\* landscape exactly when |width/height - 16/9| <= 1/100, portrait exactly
\* when |width/height - 9/16| <= 1/100, and other otherwise, the edge of the
\* tolerance included.
ClassifierExact == cres # "" => cres = ExactClass(cw, ch)

(***************************************************************************)
(* The reference codec                                                     *)
(***************************************************************************)
HasComma(str) == \E i \in 1..Len(str) : str[i] = ","

\* C11: a bucket and a key that hold no comma come back from decoding the
\* reference they were encoded in, the keys of the video handler among them
CodecRoundTrip ==
    (fout # Nil /\ ~HasComma(fin[1]) /\ ~HasComma(fin[2]))
        => /\ fout[1].ok
           /\ fout[1].bucket = fin[1]
           /\ fout[1].key = fin[2]

CodecRoundTripWitness ==
    /\ fout # Nil
    /\ fin[1] = s3Bucket
    /\ fin[2] \in GeneratedKeys
    /\ fout[1] = [ok |-> TRUE, bucket |-> fin[1], key |-> fin[2]]


(***************************************************************************)
(* The key of a published video                                            *)
(***************************************************************************)
\* the orientation of a frame, from the classifier's answer for it
OrientationOf(width, height) ==
    LET answer == checkAspectRatioType(width, height, Tolerance)
    IN  CASE answer = "16:9" -> "landscape"
          [] answer = "9:16" -> "portrait"
          [] OTHER           -> "other"

\* C12: the key under which a video request publishes is an orientation, a
\* slash and a generated key; the orientation is landscape, portrait or other
\* and is the class of the width and height the probe reported to that
\* request, landscape for 1920x1080
KeyCarriesOrientation ==
    \A p \in Procs :
        (VideoRun(p) /\ run[p].put # Nil)
            => /\ run[p].put = <<OrientationOf(run[p].width, run[p].height), "/">>
                                  \o getAssetPath(run[p].serial, run[p].mediaType)
               /\ run[p].put[1] \in Orientations
               /\ (run[p].width = 1920 /\ run[p].height = 1080
                      => run[p].put[1] = "landscape")
               /\ \E o \in s3 : o.Key = run[p].put

KeyCarriesOrientationWitness ==
    \E p \in Procs :
        /\ VideoRun(p) /\ run[p].put # Nil
        /\ run[p].width = 1080 /\ run[p].height = 1920
        /\ run[p].put[1] = "portrait"


(***************************************************************************)
(* The thumbnail path                                                      *)
(***************************************************************************)
ThumbSucceeded(r) == r.kind \in ThumbKinds /\ r.pc = "done" /\ r.status = 200

\* the request has had nothing to do with the remux, the probe, the classifier
NoVideoStages(r) ==
    /\ r.env \cap {"remuxed", "remuxFailed", "probed", "probeExit", "probeGarbage",
                    "probeNoStreams"} = {}
    /\ \A i \in 1..Len(r.stages) : r.stages[i] \notin {"Processed", "Probed", "Classified"}
    /\ r.processedVideoPath = Nil /\ r.processedVideoFile = Nil
    /\ r.width = 0 /\ r.height = 0 /\ r.aspectRatio = ""

ThumbStored(p) ==
    /\ run[p].key = getAssetPath(run[p].serial, run[p].mediaType)
    /\ ~Mentions(run[p].key, "/") /\ run[p].key[1] \notin Orientations
    /\ Exists(disk, getAssetDiskPath(run[p].key))
    /\ Data(disk, getAssetDiskPath(run[p].key)) = "upload"
    /\ run[p].wrote = getAssetURL(run[p].key)

\* the step in which thumbnail request p answers 200 leaves its reference in
\* the record
ThumbCommits(p) ==
    (~ThumbSucceeded(run[p]) /\ ThumbSucceeded(run'[p]))
        => db'[run'[p].videoID].ThumbnailURL = getAssetURL(run'[p].key)

\* C13: a thumbnail request never runs the remux, the probe or the classifier;
\* when it succeeds, its step of success leaves the reference to its file in
\* the record, the uploaded bytes are the file under the generated key, and
\* that key has no orientation in front
ThumbnailDirect ==
    /\ [](\A p \in Procs : ThumbRun(p) =>
               /\ NoVideoStages(run[p])
               /\ ThumbSucceeded(run[p]) => ThumbStored(p))
    /\ [][\A p \in Procs : ThumbCommits(p)]_vars

ThumbnailDirectWitness ==
    \E p \in Procs :
        /\ run[p].kind = "thumbnail" /\ ThumbSucceeded(run[p])
        /\ run[p].videoDb.UserID = run[p].userID
        /\ Accepted(run[p].kind, run[p].header)
        /\ db[run[p].videoID].ThumbnailURL = getAssetURL(run[p].key)
        /\ ThumbStored(p)


(***************************************************************************)
(* A copy of the upload that breaks off                                    *)
(***************************************************************************)
CopyBroke(p) == "copyFailed" \in run[p].env

\* the local file request p copies the upload into
LocalFile(p) ==
    IF VideoRun(p) THEN run[p].tempFile ELSE getAssetDiskPath(run[p].key)

\* C14: in both handlers a request whose copy of the upload into the local
\* file broke off ends with an error, and once it has ended the file it was
\* copying into is no longer on the disk
PartialFileDiscarded ==
    \A p \in Procs :
        (CopyBroke(p) /\ Done(p))
            => /\ run[p].ended = "response" /\ run[p].status = 500
               /\ ~Exists(disk, LocalFile(p))


(***************************************************************************)
(* The extension of a generated key                                        *)
(***************************************************************************)
Slashes(str) == {i \in 1..Len(str) : str[i] = "/"}

\* what follows the only slash of a content type
Subtype(str) == SubSeq(str, (CHOOSE i \in Slashes(str) : TRUE) + 1, Len(str))

\* C15: the key generated for a content type is a random name followed by an
\* extension: a dot and the subtype when the content type splits on the
\* slash in exactly two parts, .bin for every other content type
ExtensionFromSubtype ==
    fout # Nil =>
        /\ \E n \in {Serial(p) : p \in Procs} : fout[1][1] = RandomName(n)
        /\ SubSeq(fout[1], 2, Len(fout[1])) =
              IF Cardinality(Slashes(fin)) = 1 THEN <<".">> \o Subtype(fin)
              ELSE <<".bin">>

ExtensionFromSubtypeWitness ==
    /\ fout # Nil
    /\ fin = <<"image", "/", "png">>
    /\ SubSeq(fout[1], 2, Len(fout[1])) = <<".", "png">>


(***************************************************************************)
(* A video request that answers an error                                   *)
(***************************************************************************)
VideoAnsweredError(p) ==
    VideoRun(p) /\ Done(p) /\ run[p].ended = "response" /\ run[p].status # 200

\* C16: a video request that has ended with an error response, whatever the
\* step that failed, the signing of the response URL after the commit
\* included, has left the record as it was: it has written no reference
RecordUntouchedOnError ==
    \A p \in Procs :
        VideoAnsweredError(p) => run[p].wrote = Nil /\ NothingWritten(p)


(***************************************************************************)
(* A thumbnail request and a video request for one record                  *)
(***************************************************************************)
Committed(p) == run[p].wrote # Nil

\* thumbnail request p and video request q have both committed, to one record
BothCommitted(p, q) ==
    /\ ThumbRun(p) /\ VideoRun(q)
    /\ Committed(p) /\ Committed(q)
    /\ run[p].videoID = run[q].videoID

BothKept(p, q) ==
    /\ db[run[p].videoID].ThumbnailURL = run[p].wrote
    /\ db[run[q].videoID].VideoURL = run[q].wrote

\* C17 as stated: when a thumbnail request and a video request for one record
\* have both committed, the record carries the reference of each
BothReferencesKept ==
    \A p, q \in Procs : BothCommitted(p, q) => BothKept(p, q)

\* one of the two read the record after the other had committed
ReadAfterCommit(p, q) ==
    \/ run[q].videoDb.ThumbnailURL = run[p].wrote
    \/ run[p].videoDb.VideoURL = run[q].wrote

\* the step in which p commits puts in the record the copy p read, with the
\* reference of p in its own field and the other field as p read it
CommitWritesCopy(p) ==
    (~Committed(p) /\ run'[p].wrote # Nil)
        => /\ db'[run'[p].videoID] = run'[p].videoDb
           /\ IF run'[p].kind = "video"
              THEN /\ run'[p].videoDb.VideoURL = run'[p].wrote
                   /\ run'[p].videoDb.ThumbnailURL = run[p].videoDb.ThumbnailURL
              ELSE /\ run'[p].videoDb.ThumbnailURL = run'[p].wrote
                   /\ run'[p].videoDb.VideoURL = run[p].videoDb.VideoURL

\* C17: every commit replaces the whole record by the copy its request read,
\* with its own reference set; when a thumbnail request and a video request
\* for one record have both committed, the record is the copy of one of them,
\* and it carries both references exactly when one of the two read the record
\* after the other had committed
LastCommitWins ==
    /\ [](\A p, q \in Procs : BothCommitted(p, q) =>
               /\ db[run[p].videoID] \in {run[p].videoDb, run[q].videoDb}
               /\ BothKept(p, q) <=> ReadAfterCommit(p, q))
    /\ [][\A p \in Procs : CommitWritesCopy(p)]_vars

LastCommitWinsWitness ==
    \E p, q \in Procs :
        /\ BothCommitted(p, q)
        /\ Done(p) /\ Done(q) /\ run[p].status = 200 /\ run[q].status = 200
        /\ db[run[q].videoID].VideoURL = run[q].wrote
        /\ db[run[p].videoID].ThumbnailURL = Nil


(***************************************************************************)
(* The output file of the remux                                            *)
(***************************************************************************)
Remuxed(p) == VideoRun(p) /\ "remuxed" \in run[p].env

\* C18: once a video request whose upload was remuxed has ended, with success
\* or with any failure after the remux, the .processing file the remux wrote
\* is no longer on the disk
ProcessedFileRemoved ==
    \A p \in Procs :
        (Remuxed(p) /\ Done(p)) => ~Exists(disk, run[p].processedVideoPath)


(***************************************************************************)
(* The reference kept and the URL answered                                 *)
(***************************************************************************)
\* a "<bucket>,<key>" of this server's bucket
IsReference(ref) ==
    /\ DecodeRef(ref).ok
    /\ DecodeRef(ref).bucket = s3Bucket
    /\ \E p \in Procs : DecodeRef(ref).key = run[p].put

IsSignedURL(url) == Len(url) > 0 /\ url[1] = "https://"

VideoSucceeded(p) == VideoRun(p) /\ Done(p) /\ run[p].status = 200

\* C19: a video reference in the record store is always the encoded
\* "<bucket>,<key>", never a signed URL; the record a video request answers
\* is the record it stored with the video reference alone replaced, by the
\* signed URL, and the step that answers it leaves the record store as it is
ReferenceKeptEncoded ==
    /\ [](\A v \in DOMAIN db :
              db[v].VideoURL # Nil =>
                  IsReference(db[v].VideoURL) /\ ~IsSignedURL(db[v].VideoURL))
    /\ [](\A p \in Procs :
              VideoSucceeded(p) =>
                  /\ run[p].videoDb.VideoURL = EncodeRef(s3Bucket, run[p].key)
                  /\ IsSignedURL(run[p].resp.VideoURL)
                  /\ run[p].resp.VideoURL # run[p].videoDb.VideoURL
                  /\ run[p].resp = [run[p].videoDb EXCEPT !.VideoURL = run[p].resp.VideoURL])
    /\ [][\A p \in Procs :
              (At(p, "video", "presign") /\ run'[p] # run[p]) => db' = db]_vars

ReferenceKeptEncodedWitness ==
    \E p \in Procs :
        /\ VideoSucceeded(p)
        /\ db[run[p].videoID].VideoURL = EncodeRef(s3Bucket, run[p].key)
        /\ run[p].resp.VideoURL =
              generatePresignedURL(s3Bucket, run[p].key, 300, TRUE).url


(***************************************************************************)
(* The status of each kind of failure                                      *)
(***************************************************************************)
\* the status class the error taxonomy gives a failure
StatusOf(failedAt) ==
    CASE failedAt \in {"token", "jwt", "owner"}                      -> 401
      [] failedAt = "notFound"                                       -> 404
      [] failedAt \in {"id", "form", "mediaParse", "mediaType"}      -> 400
      [] OTHER                                                       -> 500

\* C20: in both handlers a request that answers an error answers the status
\* of the kind of its failure: 401 for a missing or invalid credential (never
\* 400), 404 for a missing record, 400 for a malformed id, body or content
\* type, 500 for a failure of staging, processing, publishing or committing
OneStatusPerFailure ==
    \A p \in Procs :
        (Done(p) /\ run[p].ended = "response" /\ run[p].failedAt # "")
            => run[p].status = StatusOf(run[p].failedAt)

=============================================================================
